---------------------------- MODULE Spec2Model ----------------------------
(***************************************************************************)
(* A model of the simulation kernel of taikan-landscape: Scene (the tick    *)
(* loop and resize), Cloud (drift and wrap), Mountain (point-in-polygon)    *)
(* and Bird (steering, gravity speed model and the three boid rules).       *)
(*                                                                          *)
(* The program computes with IEEE doubles; the model computes with          *)
(* integers in fixed units:                                                 *)
(*   angles            whole degrees           (PI = 180)                   *)
(*   sin, cos          thousandths             (TrigScale)                  *)
(*   bird positions    thousandths of the canvas (PosScale per 1.0)         *)
(*   bird speeds       1e-5 canvas per second  (VelScale per 1.0/s)         *)
(*   flocking forces   thousandths             (ForceScale per 1.0)         *)
(*   time              milliseconds            (MsPerSecond per second)     *)
(*   cloud positions   thousandths of a pixel  (PxScale per pixel)          *)
(*   Math.random()     thousandths, 0..999     (RandScale)                  *)
(* A quotient is rounded to the nearest integer (RDiv) where the program    *)
(* divides or multiplies by a fraction.                                     *)
(***************************************************************************)
EXTENDS Integers, Sequences, FiniteSets, TLC

VARIABLES
    canvas,       \* [width, height] of the canvas, in pixels
    windSpeed,    \* Scene.windSpeed, pixels per second
    mountain,     \* [present, vertices]: the Mountain a bird's update is given
    clouds,       \* Scene.clouds: sequence of Cloud records
    birds,        \* Scene.birds: sequence of Bird records
    lastTime,     \* Scene.lastTime, ms
    currentTime,  \* Scene.currentTime, ms
    random,       \* [stream, next]: the Math.random() sequence and the next draw
    pc,           \* "idle" between frames, "update" inside Scene.update
    idx,          \* number of calls Scene.update has made in the running tick
    deltaTime,    \* deltaTime of the running tick, ms
    started,      \* whether Scene.init has called animate(0)
    ticks,        \* number of ticks begun (bounded by MaxTicks)
    resizes,      \* number of resize events handled (bounded by MaxResizes)
    tickStart,    \* the flock as it was when the running tick began
    calls,        \* the calls Scene.update has made in the running tick, in order
    objects,      \* [clouds, birds, created]: the identity of the object in each place
                  \* of the two collections, and the number of objects created so far
    last          \* the last operation applied: its name, its inputs, the object before it

vars == << canvas, windSpeed, mountain, clouds, birds, lastTime, currentTime, random,
           pc, idx, deltaTime, started, ticks, resizes, tickStart, calls, objects,
           last >>

--------------------------------------------------------------------------
(* Units *)

PI == 180
TrigScale == 1000
PosScale == 1000
VelScale == 100000
ForceScale == 1000
MsPerSecond == 1000
PxScale == 1000
RandScale == 1000

(* Bounds of the model *)

MaxTicks == 4
MaxResizes == 1
MaxOps == 2
MaxVertices == 4

--------------------------------------------------------------------------
(* Arithmetic *)

Abs(a) == IF a < 0 THEN -a ELSE a

Sign(a) == IF a > 0 THEN 1 ELSE IF a < 0 THEN -1 ELSE 0

Min(a, b) == IF a < b THEN a ELSE b

Max(a, b) == IF a > b THEN a ELSE b

\* a / b for b > 0, rounded to the nearest integer, halves away from zero
RDiv(a, b) == IF a >= 0 THEN (2 * a + b) \div (2 * b)
                        ELSE -((2 * (-a) + b) \div (2 * b))

\* floor of the square root of n >= 0
RECURSIVE SqrtFrom(_, _)
SqrtFrom(n, r) == IF (r + 1) * (r + 1) > n THEN r ELSE SqrtFrom(n, r + 1)

RECURSIVE SqrtBisect(_, _, _)
SqrtBisect(n, lo, hi) ==
    IF hi - lo <= 1 THEN lo
    ELSE LET mid == (lo + hi) \div 2
         IN  IF mid * mid <= n THEN SqrtBisect(n, mid, hi) ELSE SqrtBisect(n, lo, mid)

ISqrt(n) == IF n < 4 THEN SqrtFrom(n, 0) ELSE SqrtBisect(n, 1, Min(n, 46340))

\* 1000 * sin(d degrees) for d = 0..90
SinTable ==
    << 0, 17, 35, 52, 70, 87, 105, 122, 139, 156, 174, 191, 208, 225, 242, 259,
       276, 292, 309, 326, 342, 358, 375, 391, 407, 423, 438, 454, 469, 485, 500,
       515, 530, 545, 559, 574, 588, 602, 616, 629, 643, 656, 669, 682, 695, 707,
       719, 731, 743, 755, 766, 777, 788, 799, 809, 819, 829, 839, 848, 857, 866,
       875, 883, 891, 899, 906, 914, 921, 927, 934, 940, 946, 951, 956, 961, 966,
       970, 974, 978, 982, 985, 988, 990, 993, 995, 996, 998, 999, 999, 1000, 1000 >>

Mod360(a) == ((a % (2 * PI)) + 2 * PI) % (2 * PI)

\* Math.sin, Math.cos of an angle in degrees, in thousandths
Sin(a) ==
    LET d == Mod360(a)
    IN  IF d <= 90 THEN SinTable[d + 1]
        ELSE IF d <= 180 THEN SinTable[180 - d + 1]
        ELSE IF d <= 270 THEN -SinTable[d - 180 + 1]
        ELSE -SinTable[360 - d + 1]

Cos(a) == Sin(a + 90)

\* Math.atan2(y, x) in degrees, in -179..180, rounded to the nearest degree;
\* atan2(0, 0) = 0.  Within the quadrant of (x, y) the angle a is at or below the
\* direction of (x, y) exactly when the cross product of a's unit vector with
\* (x, y) is >= 0.
QuadrantLow(y, x) ==
    IF y >= 0 THEN (IF x > 0 THEN 0 ELSE 90)
    ELSE (IF x >= 0 THEN -90 ELSE -180)

RECURSIVE FloorAngle(_, _, _, _)
FloorAngle(y, x, lo, hi) ==
    IF hi - lo <= 1 THEN lo
    ELSE LET mid == (lo + hi) \div 2
         IN  IF Cos(mid) * y - Sin(mid) * x >= 0
             THEN FloorAngle(y, x, mid, hi) ELSE FloorAngle(y, x, lo, mid)

Atan2(y, x) ==
    IF x = 0 /\ y = 0 THEN 0
    ELSE LET lo == QuadrantLow(y, x)
             a == FloorAngle(y, x, lo, lo + 90)
             best == IF Abs(Cos(a + 1) * y - Sin(a + 1) * x) < Abs(Cos(a) * y - Sin(a) * x)
                     THEN a + 1 ELSE a
         IN  IF best = -PI THEN PI ELSE best

\* while (a > PI) a -= 2 PI; while (a < -PI) a += 2 PI
RECURSIVE WrapAngle(_)
WrapAngle(a) ==
    IF a > PI THEN WrapAngle(a - 2 * PI)
    ELSE IF a < -PI THEN WrapAngle(a + 2 * PI)
    ELSE a

--------------------------------------------------------------------------
(* config.ts *)

BIRD_BASE_SPEED == 4500
BIRD_MIN_SPEED == 3500
BIRD_MAX_SPEED == 7000
BIRD_GRAVITY_EFFECT == 2000
BIRD_TURN_SPEED == 180
BIRD_SEPARATION_DISTANCE == 30
BIRD_ALIGNMENT_DISTANCE == 60
BIRD_COHESION_DISTANCE == 150
BIRD_SEPARATION_WEIGHT == 4000
BIRD_ALIGNMENT_WEIGHT == 3500
BIRD_COHESION_WEIGHT == 500
BIRD_DIRECTION_CHANGE_MIN == 10000
BIRD_DIRECTION_CHANGE_MAX == 20000
BIRD_RANDOM_TURN_RANGE == 60
BIRD_FLOCKING_BLEND_FACTOR == 400
BIRD_EDGE_MARGIN == 50
BIRD_TURN_INERTIA_MIN == 200
BIRD_TURN_INERTIA_MAX == 700
DEFAULT_WIND_SPEED == 15
NOISE_SCALE == 60


--------------------------------------------------------------------------
(* Mountain.ts *)

Point(x, y) == [x |-> x, y |-> y]

\* the loop header "for (i = 0, j = length - 1; i < length; j = i++)": the vertex
\* that closes the edge ending at vertex i (1-based)
PrevIndexNoClosingEdge(i, n) == IF i = 1 THEN 1 ELSE i - 1

PrevIndex(i, n) == IF i = 1 THEN n ELSE i - 1

\* ((yi > y) !== (yj > y)) && (x < (xj - xi) * (y - yi) / (yj - yi) + xi),
\* the comparison taken exactly: both sides multiplied by yj - yi
Intersect(vi, vj, point) ==
    /\ (vi.y > point.y) # (vj.y > point.y)
    /\ LET den == vj.y - vi.y
           num == (vj.x - vi.x) * (point.y - vi.y)
       IN  IF den > 0 THEN (point.x - vi.x) * den < num
                      ELSE (point.x - vi.x) * den > num

isPointInsideFailClosed(vertices, point) ==
    IF Len(vertices) < 3 THEN TRUE
    ELSE LET n == Len(vertices)
             crossing == { i \in 1 .. n :
                             Intersect(vertices[i], vertices[PrevIndex(i, n)], point) }
         IN  Cardinality(crossing) % 2 = 1

\* Mountain.isPointInside: "inside" is toggled once per crossing edge
isPointInside(vertices, point) ==
    IF Len(vertices) < 3 THEN FALSE
    ELSE LET n == Len(vertices)
             crossing == { i \in 1 .. n :
                             Intersect(vertices[i], vertices[PrevIndex(i, n)], point) }
         IN  Cardinality(crossing) % 2 = 1

--------------------------------------------------------------------------
(* Bird.ts: constructor *)

\* BIRD_DIRECTION_CHANGE_MIN + Math.random() * (MAX - MIN)
NewDirectionChangeTimer(r) ==
    BIRD_DIRECTION_CHANGE_MIN
      + RDiv(r * (BIRD_DIRECTION_CHANGE_MAX - BIRD_DIRECTION_CHANGE_MIN), RandScale)

\* (cos, sin)(direction) * speed
VelocityOf(direction, speed) ==
    [x |-> RDiv(Cos(direction) * speed, TrigScale),
     y |-> RDiv(Sin(direction) * speed, TrigScale)]

\* new Bird({position, baseSpeed, minSpeed, maxSpeed}); rDir and rTimer are the two
\* Math.random() values the constructor draws
\* (Math.random() < 1, so targetDirection < 2 pi: the degrees are rounded down)
NewBird(position, baseSpeed, minSpeed, maxSpeed, rDir, rTimer) ==
    LET targetDirection == (rDir * 2 * PI) \div RandScale
    IN  [position |-> position,
         velocity |-> VelocityOf(targetDirection, baseSpeed),
         targetDirection |-> targetDirection,
         baseSpeed |-> baseSpeed,
         currentSpeed |-> baseSpeed,
         minSpeed |-> minSpeed,
         maxSpeed |-> maxSpeed,
         directionChangeTimer |-> NewDirectionChangeTimer(rTimer)]

--------------------------------------------------------------------------
(* Bird.ts: update *)

NoAvoidance == [avoid |-> FALSE, direction |-> 0]

Avoid(direction) == [avoid |-> TRUE, direction |-> direction]

EdgeAvoidanceVerticalFirst(position) ==
    IF position.y < BIRD_EDGE_MARGIN THEN Avoid(PI \div 2)
    ELSE IF position.y > PosScale - BIRD_EDGE_MARGIN THEN Avoid(-(PI \div 2))
    ELSE IF position.x < BIRD_EDGE_MARGIN THEN Avoid(0)
    ELSE IF position.x > PosScale - BIRD_EDGE_MARGIN THEN Avoid(PI)
    ELSE NoAvoidance

\* the window-boundary checks
EdgeAvoidance(position) ==
    IF position.x < BIRD_EDGE_MARGIN THEN Avoid(0)
    ELSE IF position.x > PosScale - BIRD_EDGE_MARGIN THEN Avoid(PI)
    ELSE IF position.y < BIRD_EDGE_MARGIN THEN Avoid(PI \div 2)
    ELSE IF position.y > PosScale - BIRD_EDGE_MARGIN THEN Avoid(-(PI \div 2))
    ELSE NoAvoidance

\* mountain && mountain.isPointInside(this.position)
InsideMountain(b, m) == m.present /\ isPointInside(m.vertices, b.position)

AvoidanceDirectionEdgeWins(b, m) ==
    IF EdgeAvoidance(b.position).avoid THEN EdgeAvoidance(b.position)
    ELSE IF InsideMountain(b, m) THEN Avoid(-(PI \div 2))
    ELSE NoAvoidance

AvoidanceNever(b, m) == NoAvoidance

\* avoidanceDirection after both checks: the mountain check runs last
AvoidanceDirection(b, m) ==
    IF InsideMountain(b, m) THEN Avoid(-(PI \div 2)) ELSE EdgeAvoidance(b.position)

BoostSpeedNone(b) == b.baseSpeed

\* this.baseSpeed * 1.2
BoostSpeed(b) == RDiv(b.baseSpeed * 12, 10)

\* currentSpeed after the mountain check
SpeedAfterBoost(b, m) ==
    IF InsideMountain(b, m) /\ b.currentSpeed < BoostSpeed(b)
    THEN BoostSpeed(b) ELSE b.currentSpeed

RandomOffsetFullCircle(r) == RDiv((2 * r - RandScale) * 2 * PI, 2 * RandScale)

\* (Math.random() - 0.5) * BIRD_RANDOM_TURN_RANGE
RandomOffset(r) == RDiv((2 * r - RandScale) * BIRD_RANDOM_TURN_RANGE, 2 * RandScale)

\* this.turnSpeed * (INERTIA_MIN + turnFactor * (INERTIA_MAX - INERTIA_MIN)), in
\* thousandths of a degree per second, with
\* turnFactor = 1 - (1 - |angleDiff| / PI)^3 in thousandths
TurnFactor(angleDiff) ==
    TrigScale - RDiv((PI - Abs(angleDiff)) * (PI - Abs(angleDiff)) * (PI - Abs(angleDiff)),
                     (PI * PI * PI) \div TrigScale)

AdjustedTurnSpeed(angleDiff) ==
    BIRD_TURN_SPEED
      * (BIRD_TURN_INERTIA_MIN
           + RDiv(TurnFactor(angleDiff) * (BIRD_TURN_INERTIA_MAX - BIRD_TURN_INERTIA_MIN),
                  TrigScale))

\* maxTurn = adjustedTurnSpeed * deltaTime, in degrees
MaxTurn(angleDiff, dt) ==
    RDiv((AdjustedTurnSpeed(angleDiff) \div 10) * dt, 100 * MsPerSecond)

ActualTurnOvershooting(angleDiff, dt) == Sign(angleDiff) * MaxTurn(angleDiff, dt)

\* Math.sign(angleDiff) * Math.min(Math.abs(angleDiff), maxTurn)
ActualTurn(angleDiff, dt) == Sign(angleDiff) * Min(Abs(angleDiff), MaxTurn(angleDiff, dt))

\* this.gravityEffect * verticalComponent * deltaTime
SpeedChange(newDirection, dt) ==
    RDiv((BIRD_GRAVITY_EFFECT \div 1000) * Sin(newDirection) * dt, MsPerSecond)

ClampSpeedNoClamp(b, speed) == speed

\* Math.max(this.minSpeed, Math.min(this.maxSpeed, this.currentSpeed))
ClampSpeed(b, speed) == Max(b.minSpeed, Min(b.maxSpeed, speed))

TimerAlwaysCountsDown(b, dt, avoid) == b.directionChangeTimer - dt

\* directionChangeTimer after "this.directionChangeTimer -= deltaTime", which only
\* the branch without avoidance runs
TimerAfterCountdown(b, dt, avoid) ==
    IF avoid THEN b.directionChangeTimer ELSE b.directionChangeTimer - dt

ExpiredBelowZero(timer) == timer < 0

\* this.directionChangeTimer <= 0
Expired(timer) == timer <= 0

\* Bird.update(deltaTime, _, _, mountain); rTurn and rTimer are the Math.random()
\* values drawn when the direction change timer expires
BirdUpdate(b, dt, m, rTurn, rTimer) ==
    LET avoidance == AvoidanceDirection(b, m)
        boosted == SpeedAfterBoost(b, m)
        timer1 == TimerAfterCountdown(b, dt, avoidance.avoid)
        expired == ~avoidance.avoid /\ Expired(timer1)
        currentDirection == Atan2(b.velocity.y, b.velocity.x)
        target == IF avoidance.avoid THEN avoidance.direction
                  ELSE IF expired THEN currentDirection + RandomOffset(rTurn)
                  ELSE b.targetDirection
        timer2 == IF expired THEN NewDirectionChangeTimer(rTimer) ELSE timer1
        angleDiff == WrapAngle(target - currentDirection)
        newDirection == currentDirection + ActualTurn(angleDiff, dt)
        speed == ClampSpeed(b, boosted + SpeedChange(newDirection, dt))
        velocity == VelocityOf(newDirection, speed)
    IN  [b EXCEPT !.targetDirection = target,
                  !.directionChangeTimer = timer2,
                  !.currentSpeed = speed,
                  !.velocity = velocity,
                  !.position = [x |-> b.position.x + RDiv(velocity.x * dt, 100 * MsPerSecond),
                                y |-> b.position.y + RDiv(velocity.y * dt, 100 * MsPerSecond)]]

--------------------------------------------------------------------------
(* Bird.ts: the boid rules *)

Zero2 == [x |-> 0, y |-> 0]

\* dx * dx + dy * dy between two positions
DistSq(p, q) == (p.x - q.x) * (p.x - q.x) + (p.y - q.y) * (p.y - q.y)

\* Math.sqrt(dx * dx + dy * dy), in hundredths of a position unit
Dist100(dsq) == ISqrt(dsq * 10000)

SumOver(S, f(_)) ==
    LET RECURSIVE Go(_)
        Go(T) == IF T = {} THEN 0
                 ELSE LET e == CHOOSE e \in T : TRUE IN f(e) + Go(T \ {e})
    IN  Go(S)

\* Bird.getNeighbors: the other birds at distance < maxDistance (the comparison of
\* the square roots taken exactly, as a comparison of the squares)
getNeighbors(flock, i, maxDistance) ==
    { j \in 1 .. Len(flock) :
        j # i /\ DistSq(flock[j].position, flock[i].position) < maxDistance * maxDistance }

\* urgency = (1 - distance / separationDistance)^3 in 1e-5: 0 at separationDistance,
\* and rounded up below it, where the doubles give a positive urgency
Urgency(dsq, separationDistance) ==
    LET nd == RDiv(Dist100(dsq) * 10, separationDistance)
        cube == (1000 - nd) * (1000 - nd) * (1000 - nd)
    IN  IF dsq >= separationDistance * separationDistance THEN 0
        ELSE Max(1, RDiv(cube, 10000))

SeparationContributorsNoZeroGuard(flock, i, neighbors, separationDistance) ==
    { j \in neighbors :
        DistSq(flock[i].position, flock[j].position) < separationDistance * separationDistance }

\* the neighbours that pass "distance > 0 && distance < this.separationDistance"
SeparationContributors(flock, i, neighbors, separationDistance) ==
    { j \in neighbors :
        /\ DistSq(flock[i].position, flock[j].position) > 0
        /\ DistSq(flock[i].position, flock[j].position) < separationDistance * separationDistance }

\* a / b of two doubles with b >= 0, rounded. For b = 0 the doubles give NaN or an
\* infinity, which the integers do not have: 0 stands for it, and
\* SeparationDivisors tells whether the rule divides by 0
Quotient(a, b) == IF b = 0 THEN 0 ELSE RDiv(a, b)

\* the numbers Bird.separation divides by: the distance of every contributing
\* neighbour (in hundredths), and totalWeight when it is > 0
SeparationDivisors(flock, i, separationDistance) ==
    LET neighbors == getNeighbors(flock, i, separationDistance)
        C == SeparationContributors(flock, i, neighbors, separationDistance)
        w(j) == Urgency(DistSq(flock[i].position, flock[j].position), separationDistance)
        totalWeight == SumOver(C, w)
    IN  { Dist100(DistSq(flock[i].position, flock[j].position)) : j \in C }
          \cup (IF totalWeight > 0 THEN { totalWeight } ELSE {})

\* Bird.separation for a bird whose separationDistance field is separationDistance:
\* the urgency-weighted mean of the unit vectors away from the neighbours, times
\* separationWeight; in force units
SeparationRule(flock, i, separationDistance) ==
    LET neighbors == getNeighbors(flock, i, separationDistance)
        C == SeparationContributors(flock, i, neighbors, separationDistance)
        dsq(j) == DistSq(flock[i].position, flock[j].position)
        ux(j) == Quotient((flock[i].position.x - flock[j].position.x) * 100000,
                          Dist100(dsq(j)))
        uy(j) == Quotient((flock[i].position.y - flock[j].position.y) * 100000,
                          Dist100(dsq(j)))
        w(j) == Urgency(dsq(j), separationDistance)
        sx(j) == ux(j) * w(j)
        sy(j) == uy(j) * w(j)
        totalWeight == SumOver(C, w)
        steerX == IF totalWeight > 0 THEN RDiv(SumOver(C, sx), totalWeight) ELSE SumOver(C, sx)
        steerY == IF totalWeight > 0 THEN RDiv(SumOver(C, sy), totalWeight) ELSE SumOver(C, sy)
    IN  IF neighbors = {} THEN Zero2
        ELSE [x |-> RDiv(steerX * BIRD_SEPARATION_WEIGHT, 1000),
              y |-> RDiv(steerY * BIRD_SEPARATION_WEIGHT, 1000)]

separationWithAlignmentDistance(flock, i) == SeparationRule(flock, i, BIRD_ALIGNMENT_DISTANCE)

\* Bird.separation with the configured separationDistance
separation(flock, i) == SeparationRule(flock, i, BIRD_SEPARATION_DISTANCE)

AlignmentWeightNearest(dsq) ==
    LET nd == RDiv(Dist100(dsq) * 10, BIRD_ALIGNMENT_DISTANCE)
    IN  RDiv((1000 - nd) * (1000 - nd), 1000)

\* weight = (1 - |distance / alignmentDistance - 0.5| * 2)^2 in thousandths; it is
\* 0 exactly at distance 0 and at alignmentDistance, and positive elsewhere
AlignmentWeight(dsq) ==
    LET nd == RDiv(Dist100(dsq) * 10, BIRD_ALIGNMENT_DISTANCE)
        sweetSpot == 1000 - Abs(nd - 500) * 2
    IN  IF dsq = 0 \/ dsq = BIRD_ALIGNMENT_DISTANCE * BIRD_ALIGNMENT_DISTANCE THEN 0
        ELSE Max(1, RDiv(sweetSpot * sweetSpot, 1000))

alignmentByTarget(flock, i) ==
    LET neighbors == getNeighbors(flock, i, BIRD_ALIGNMENT_DISTANCE)
        w(j) == AlignmentWeight(DistSq(flock[i].position, flock[j].position))
        vx(j) == VelocityOf(flock[j].targetDirection, flock[j].currentSpeed).x * w(j)
        vy(j) == VelocityOf(flock[j].targetDirection, flock[j].currentSpeed).y * w(j)
        totalWeight == SumOver(neighbors, w)
        avgVelX == IF totalWeight > 0 THEN RDiv(SumOver(neighbors, vx), totalWeight)
                                      ELSE SumOver(neighbors, vx)
        avgVelY == IF totalWeight > 0 THEN RDiv(SumOver(neighbors, vy), totalWeight)
                                      ELSE SumOver(neighbors, vy)
    IN  IF neighbors = {} THEN Zero2
        ELSE [x |-> RDiv((avgVelX - flock[i].velocity.x) * BIRD_ALIGNMENT_WEIGHT,
                         1000 * (VelScale \div ForceScale)),
              y |-> RDiv((avgVelY - flock[i].velocity.y) * BIRD_ALIGNMENT_WEIGHT,
                         1000 * (VelScale \div ForceScale))]

\* Bird.alignment: (weighted mean neighbour velocity - own velocity) * alignmentWeight
alignment(flock, i) ==
    LET neighbors == getNeighbors(flock, i, BIRD_ALIGNMENT_DISTANCE)
        w(j) == AlignmentWeight(DistSq(flock[i].position, flock[j].position))
        vx(j) == flock[j].velocity.x * w(j)
        vy(j) == flock[j].velocity.y * w(j)
        totalWeight == SumOver(neighbors, w)
        avgVelX == IF totalWeight > 0 THEN RDiv(SumOver(neighbors, vx), totalWeight)
                                      ELSE SumOver(neighbors, vx)
        avgVelY == IF totalWeight > 0 THEN RDiv(SumOver(neighbors, vy), totalWeight)
                                      ELSE SumOver(neighbors, vy)
    IN  IF neighbors = {} THEN Zero2
        ELSE [x |-> RDiv((avgVelX - flock[i].velocity.x) * BIRD_ALIGNMENT_WEIGHT,
                         1000 * (VelScale \div ForceScale)),
              y |-> RDiv((avgVelY - flock[i].velocity.y) * BIRD_ALIGNMENT_WEIGHT,
                         1000 * (VelScale \div ForceScale))]

cohesionNoEmptyGuard(flock, i) ==
    LET neighbors == getNeighbors(flock, i, BIRD_COHESION_DISTANCE)
        w(j) == DistSq(flock[i].position, flock[j].position)
        px(j) == flock[j].position.x * w(j)
        py(j) == flock[j].position.y * w(j)
        totalWeight == SumOver(neighbors, w)
        avgPosX == IF totalWeight > 0 THEN RDiv(SumOver(neighbors, px), totalWeight)
                                      ELSE SumOver(neighbors, px)
        avgPosY == IF totalWeight > 0 THEN RDiv(SumOver(neighbors, py), totalWeight)
                                      ELSE SumOver(neighbors, py)
    IN  [x |-> RDiv((avgPosX - flock[i].position.x) * BIRD_COHESION_WEIGHT, 1000),
         y |-> RDiv((avgPosY - flock[i].position.y) * BIRD_COHESION_WEIGHT, 1000)]

\* Bird.cohesion: (weighted mean neighbour position - own position) * cohesionWeight;
\* the weight (distance / cohesionDistance)^2 is taken as distance^2, the common
\* factor cancelling in the mean
cohesion(flock, i) ==
    LET neighbors == getNeighbors(flock, i, BIRD_COHESION_DISTANCE)
        w(j) == DistSq(flock[i].position, flock[j].position)
        px(j) == flock[j].position.x * w(j)
        py(j) == flock[j].position.y * w(j)
        totalWeight == SumOver(neighbors, w)
        avgPosX == IF totalWeight > 0 THEN RDiv(SumOver(neighbors, px), totalWeight)
                                      ELSE SumOver(neighbors, px)
        avgPosY == IF totalWeight > 0 THEN RDiv(SumOver(neighbors, py), totalWeight)
                                      ELSE SumOver(neighbors, py)
    IN  IF neighbors = {} THEN Zero2
        ELSE [x |-> RDiv((avgPosX - flock[i].position.x) * BIRD_COHESION_WEIGHT, 1000),
              y |-> RDiv((avgPosY - flock[i].position.y) * BIRD_COHESION_WEIGHT, 1000)]

\* the sum of the three forces
TotalForce(flock, i) ==
    LET sep == separation(flock, i)
        ali == alignment(flock, i)
        coh == cohesion(flock, i)
    IN  [x |-> sep.x + ali.x + coh.x, y |-> sep.y + ali.y + coh.y]

\* forceMagnitude > 0.01
Significant(force) == force.x * force.x + force.y * force.y > 10 * 10

BlendedTargetSnap(currentDir, desiredDirection) == desiredDirection

BlendedTargetNoWrap(currentDir, desiredDirection) ==
    currentDir + RDiv((desiredDirection - currentDir) * BIRD_FLOCKING_BLEND_FACTOR, 1000)

\* currentDir + angleDiff * blendFactor
BlendedTarget(currentDir, desiredDirection) ==
    currentDir + RDiv(WrapAngle(desiredDirection - currentDir) * BIRD_FLOCKING_BLEND_FACTOR, 1000)

\* Bird.applyFlocking(flock) on flock[i]: the bird's new targetDirection
FlockedTarget(flock, i) ==
    LET force == TotalForce(flock, i)
    IN  IF Significant(force)
        THEN BlendedTarget(flock[i].targetDirection, Atan2(force.y, force.x))
        ELSE flock[i].targetDirection

applyFlockingSteeringNeighbours(flock, i) ==
    [j \in 1 .. Len(flock) |->
        IF j = i \/ j \in getNeighbors(flock, i, BIRD_COHESION_DISTANCE)
        THEN [flock[j] EXCEPT !.targetDirection = FlockedTarget(flock, i)]
        ELSE flock[j]]

\* the flock after flock[i].applyFlocking(flock)
applyFlocking(flock, i) ==
    [flock EXCEPT ![i].targetDirection = FlockedTarget(flock, i)]

--------------------------------------------------------------------------
(* Cloud (Scene.ts, second half) *)

\* const buffer = 200
WRAP_BUFFER == 200

NewCloud(position, velocity, width, height, noiseSeed) ==
    [position |-> position, velocity |-> velocity, width |-> width, height |-> height,
     noiseSeed |-> noiseSeed, noiseScale |-> NOISE_SCALE]

\* this.position.x = -this.width - buffer
WrappedXNoBuffer(c) == -c.width

WrappedX(c) == -c.width - WRAP_BUFFER * PxScale

CloudUpdateRandomizing(c, dt, wind, canvasWidth) ==
    LET moved == c.position.x + c.velocity.x * wind * dt
    IN  IF moved > (canvasWidth + WRAP_BUFFER) * PxScale
        THEN [c EXCEPT !.width = canvasWidth * 750,
                       !.position = [x |-> -(canvasWidth * 750) - WRAP_BUFFER * PxScale,
                                     y |-> 0]]
        ELSE [c EXCEPT !.position.x = moved]

CloudUpdateWrapFirst(c, dt, wind, canvasWidth) ==
    LET start == IF c.position.x > (canvasWidth + WRAP_BUFFER) * PxScale
                 THEN WrappedX(c) ELSE c.position.x
    IN  [c EXCEPT !.position.x = start + c.velocity.x * wind * dt]

CloudUpdateStoppingAtThreshold(c, dt, wind, canvasWidth) ==
    LET moved == c.position.x + c.velocity.x * wind * dt
    IN  [c EXCEPT !.position.x = Min(moved, (canvasWidth + WRAP_BUFFER) * PxScale)]

\* Cloud.update(deltaTime, windSpeed, canvasWidth)
CloudUpdate(c, dt, wind, canvasWidth) ==
    LET moved == c.position.x + c.velocity.x * wind * dt
    IN  [c EXCEPT !.position.x =
            IF moved > (canvasWidth + WRAP_BUFFER) * PxScale THEN WrappedX(c) ELSE moved]

(* Cloud.draw: what it computes for one grid point. Distances and noise are in *)
(* thousandths, alphas in millionths                                           *)

AlphaScale == 1000000

\* grid spacing of the sampling loops, in thousandths of a pixel
CLOUD_SAMPLE_STEP == 12

\* Cloud.getNoiseAt: the value of noise3D, in [-1, 1], mapped to [0, 1]
getNoiseAt(noiseValue) == (noiseValue + 1000) \div 2

\* dx * dx + dy * dy of the normalized elliptical distance of the grid point (x, y)
\* of cloud c from the middle of its box
NormalizedDistSq(c, x, y) ==
    LET dx == RDiv((2 * x - c.width) * 1000, c.width)
        dy == RDiv((2 * y - c.height) * 1000, c.height)
    IN  dx * dx + dy * dy

\* the zone of a grid point at normalizedDist d <= 1
Zone(d) ==
    LET coreSize == 200
        noiseBlendEnd == 450
        transitionEnd == 700
    IN  IF d < coreSize THEN "core"
        ELSE IF d < noiseBlendEnd THEN "blend"
        ELSE IF d < transitionEnd THEN "transition"
        ELSE "washout"

\* alpha before the boost, for normalizedDist d and noise n
ZoneAlpha(d, n) ==
    LET coreSize == 200
        noiseBlendEnd == 450
        transitionEnd == 700
        coreProgress == RDiv(d * 1000, coreSize)
        blendProgress == RDiv((d - coreSize) * 1000, noiseBlendEnd - coreSize)
        baseDensity == 1000 - RDiv(blendProgress * 3, 10)
        noiseInfluence == RDiv(blendProgress, 2)
        transitionProgress == RDiv((d - noiseBlendEnd) * 1000, transitionEnd - noiseBlendEnd)
        baseFalloff == 1000 - transitionProgress
        washoutProgress == RDiv((d - transitionEnd) * 1000, 1000 - transitionEnd)
        washoutFalloff == 1000 - washoutProgress
        edgeNoise == RDiv(n * n, 1000)
    IN  CASE Zone(d) = "core" -> AlphaScale - RDiv(coreProgress * (1000 - n), 10)
          [] Zone(d) = "blend" ->
                baseDensity * (1000 - noiseInfluence + RDiv(noiseInfluence * n, 1000))
          [] Zone(d) = "transition" -> baseFalloff * n
          [] Zone(d) = "washout" ->
                RDiv(RDiv(washoutFalloff * washoutFalloff, 1000) * edgeNoise * 6, 10)

BoostedAlphaUnclamped(alpha) == RDiv(alpha * 5, 2)

\* Math.min(1.0, alpha * 2.5)
BoostedAlpha(alpha) == Min(AlphaScale, RDiv(alpha * 5, 2))

\* one iteration of the loops of Cloud.draw, for the grid point (x, y) of cloud c
\* where noise3D gives noiseValue: whether the point is skipped, and else its zone,
\* its alphas and whether drawSoftCircle is called with the boosted alpha
DrawSample(c, x, y, noiseValue) ==
    LET dsq == NormalizedDistSq(c, x, y)
        d == ISqrt(dsq)
        alpha == ZoneAlpha(d, getNoiseAt(noiseValue))
    IN  IF dsq > 1000 * 1000
        THEN [skipped |-> TRUE, zone |-> "outside", alpha |-> 0, boosted |-> 0,
              emitted |-> FALSE]
        ELSE [skipped |-> FALSE, zone |-> Zone(d), alpha |-> alpha,
              boosted |-> BoostedAlpha(alpha),
              emitted |-> BoostedAlpha(alpha) > 20000]

--------------------------------------------------------------------------
(* Scene.ts *)
--------------------------------------------------------------------------
(* Scene.ts *)

MOUNTAIN_SUMMIT_CENTER_X == 200
MOUNTAIN_SUMMIT_Y == 600
MOUNTAIN_MID_Y == 750
MOUNTAIN_BASE_Y == 1050
MOUNTAIN_SUMMIT_WIDTH_PX == 80
MOUNTAIN_UPPER_SLOPE_ANGLE == 70
MOUNTAIN_LOWER_SLOPE_ANGLE == 51
MOVING_CLOUDS == 5
FLOCK_SIZE == 15

\* the k-th Math.random() value (k = 1, 2, ...) of a run whose random sequence
\* repeats the finite sequence stream
Rand(stream, k) == stream[((k - 1) % Len(stream)) + 1]

\* Scene.updateMountainGeometry for a canvas of w by h pixels
MountainVertices(w, h) ==
    LET summitHalfWidth == RDiv((MOUNTAIN_SUMMIT_WIDTH_PX \div 2) * PosScale, w)
        midHalfWidth == summitHalfWidth
            + RDiv((MOUNTAIN_MID_Y - MOUNTAIN_SUMMIT_Y) * h * 100, w * MOUNTAIN_UPPER_SLOPE_ANGLE)
        baseHalfWidth == midHalfWidth
            + RDiv((MOUNTAIN_BASE_Y - MOUNTAIN_MID_Y) * h * 100, w * MOUNTAIN_LOWER_SLOPE_ANGLE)
        cx == MOUNTAIN_SUMMIT_CENTER_X
    IN  << Point(cx - summitHalfWidth, MOUNTAIN_SUMMIT_Y),
           Point(cx + summitHalfWidth, MOUNTAIN_SUMMIT_Y),
           Point(cx + midHalfWidth, MOUNTAIN_MID_Y),
           Point(cx + baseHalfWidth, MOUNTAIN_BASE_Y),
           Point(cx - baseHalfWidth, MOUNTAIN_BASE_Y),
           Point(cx - midHalfWidth, MOUNTAIN_MID_Y) >>

\* the static eternal cloud of Scene.resize
EternalCloud(w, h) ==
    NewCloud([x |-> w * 500 - (w * 1500) \div 2, y |-> h * PxScale - (w * 250) \div 2],
             [x |-> 0, y |-> 0], w * 1500, w * 250, [x |-> 0, y |-> 0, z |-> 0])

\* the i-th (i = 0..4) cloud of Scene.createMovingClouds; it draws the Math.random()
\* values 4i+1 .. 4i+4 of the resize
MovingCloud(i, w, h, stream) ==
    NewCloud([x |-> -(w * 250) - RDiv(Rand(stream, 4 * i + 1) * w * 15, 8),
              y |-> Rand(stream, 4 * i + 2) * h],
             [x |-> 1, y |-> 0],
             w * (750 + Rand(stream, 4 * i + 3)),
             h * 133 + RDiv(h * Rand(stream, 4 * i + 4), 5),
             [x |-> (i + 1) * 100, y |-> (i + 1) * 100, z |-> ((i + 1) * 100) \div 2])

\* this.clouds of Scene.resize
NewClouds(w, h, stream) ==
    << EternalCloud(w, h) >> \o [k \in 1 .. MOVING_CLOUDS |-> MovingCloud(k - 1, w, h, stream)]

\* the k-th (k = 0..14) bird of Scene.resize; it draws four Math.random() values
\* after those of the clouds
FlockBird(k, stream) ==
    LET at == 4 * MOVING_CLOUDS + 4 * k
    IN  NewBird([x |-> 200 + RDiv(Rand(stream, at + 1) * 600, RandScale),
                 y |-> 200 + RDiv(Rand(stream, at + 2) * 400, RandScale)],
                BIRD_BASE_SPEED, BIRD_MIN_SPEED, BIRD_MAX_SPEED,
                Rand(stream, at + 3), Rand(stream, at + 4))

\* this.birds of Scene.resize
NewFlock(stream) == [k \in 1 .. FLOCK_SIZE |-> FlockBird(k - 1, stream)]

NoObjects == [clouds |-> << >>, birds |-> << >>, created |-> 0]

RecreatedKeepingBirds(old, nClouds, nBirds) ==
    IF old.birds = << >>
    THEN [clouds |-> [k \in 1 .. nClouds |-> old.created + k],
          birds |-> [k \in 1 .. nBirds |-> old.created + nClouds + k],
          created |-> old.created + nClouds + nBirds]
    ELSE [clouds |-> [k \in 1 .. nClouds |-> old.created + k],
          birds |-> old.birds,
          created |-> old.created + nClouds]

\* the identities in this.clouds and this.birds after Scene.resize: every "new Cloud"
\* and "new Bird" makes an object that did not exist before, numbered in the order
\* of creation; the arrays are assigned anew
Recreated(old, nClouds, nBirds) ==
    [clouds |-> [k \in 1 .. nClouds |-> old.created + k],
     birds |-> [k \in 1 .. nBirds |-> old.created + nClouds + k],
     created |-> old.created + nClouds + nBirds]

\* the calls of Scene.update in program order: the three loops
UpdateScheduleFused(nClouds, nBirds) ==
    [k \in 1 .. nClouds |-> << "cloud", k >>]
      \o [k \in 1 .. 2 * nBirds |->
            IF k % 2 = 1 THEN << "flock", (k + 1) \div 2 >> ELSE << "bird", k \div 2 >>]

UpdateSchedule(nClouds, nBirds) ==
    [k \in 1 .. nClouds |-> << "cloud", k >>]
      \o [k \in 1 .. nBirds |-> << "flock", k >>]
      \o [k \in 1 .. nBirds |-> << "bird", k >>]

Schedule == UpdateSchedule(Len(clouds), Len(birds))

\* whether update on b lets the direction change timer expire (and draws two
\* Math.random() values)
TimerExpires(b, dt, m) ==
    ~AvoidanceDirection(b, m).avoid /\ Expired(b.directionChangeTimer - dt)

\* the record of an operation: its name, the index of the object, deltaTime, the
\* object (or argument) before it, the Math.random() values handed to it, its result
Op(name, i, dt, before) ==
    [op |-> name, i |-> i, dt |-> dt, before |-> before, rTurn |-> 0, rTimer |-> 0,
     result |-> FALSE]

NoOp == Op("none", 0, 0, << >>)

(* Inputs of the scene *)

CanvasSizes == { [width |-> 1000, height |-> 800], [width |-> 1600, height |-> 900] }

\* Math.random() sequences (thousandths)
Streams == { << 0, 10, 999, 500, 20, 15, 250 >>, << 500, 999, 750, 0, 990 >> }

\* milliseconds between two frames
TimeSteps == { 100, 10000 }

\* the state Scene.resize leaves for a window of the given size
Resized(size, stream) ==
    /\ canvas' = size
    /\ windSpeed' = DEFAULT_WIND_SPEED
    /\ mountain' = [present |-> TRUE, vertices |-> MountainVertices(size.width, size.height)]
    /\ clouds' = NewClouds(size.width, size.height, stream)
    /\ birds' = NewFlock(stream)
    /\ random' = [stream |-> stream, next |-> 4 * MOVING_CLOUDS + 4 * FLOCK_SIZE + 1]
    /\ objects' = Recreated(objects, Len(clouds'), Len(birds'))

\* the state after "new Scene(canvas)": the constructor ends with resize()
Init ==
    /\ \E size \in CanvasSizes, stream \in Streams :
          /\ canvas = size
          /\ windSpeed = DEFAULT_WIND_SPEED
          /\ mountain = [present |-> TRUE,
                         vertices |-> MountainVertices(size.width, size.height)]
          /\ clouds = NewClouds(size.width, size.height, stream)
          /\ birds = NewFlock(stream)
          /\ random = [stream |-> stream, next |-> 4 * MOVING_CLOUDS + 4 * FLOCK_SIZE + 1]
          /\ objects = Recreated(NoObjects, Len(clouds), Len(birds))
    /\ lastTime = 0
    /\ currentTime = 0
    /\ pc = "idle"
    /\ idx = 0
    /\ deltaTime = 0
    /\ started = FALSE
    /\ ticks = 0
    /\ resizes = 0
    /\ tickStart = birds
    /\ calls = << >>
    /\ last = NoOp

FrameDeltaTimeUnguarded(timestamp, previous) == timestamp - previous

\* this.lastTime ? (timestamp - this.lastTime) / 1000 : 0, in ms
FrameDeltaTime(timestamp, previous) == IF previous # 0 THEN timestamp - previous ELSE 0

\* Scene.animate(timestamp) up to its call of this.update(deltaTime)
BeginTick(timestamp) ==
    /\ deltaTime' = FrameDeltaTime(timestamp, lastTime)
    /\ lastTime' = timestamp
    /\ currentTime' = timestamp
    /\ pc' = "update"
    /\ idx' = 0
    /\ calls' = << >>
    /\ tickStart' = birds
    /\ ticks' = ticks + 1
    /\ last' = Op("animate", 0, timestamp, << >>)
    /\ UNCHANGED << canvas, windSpeed, mountain, clouds, birds, random, resizes, objects >>

\* Scene.init: this.animate(0)
SceneInit ==
    /\ ~started
    /\ pc = "idle"
    /\ ticks < MaxTicks
    /\ started' = TRUE
    /\ BeginTick(0)

\* the requestAnimationFrame callback: this.animate(t), step ms after the last frame
Animate ==
    /\ started
    /\ pc = "idle"
    /\ ticks < MaxTicks
    /\ UNCHANGED started
    /\ \E step \in TimeSteps : BeginTick(currentTime + step)

\* after a call of Scene.update: the next call, or the end of the tick (render
\* changes no state of the model)
Advance ==
    /\ idx' = idx + 1
    /\ pc' = IF idx + 1 = Len(Schedule) THEN "idle" ELSE "update"
    /\ calls' = Append(calls, Schedule[idx + 1])
    /\ UNCHANGED << canvas, windSpeed, mountain, lastTime, currentTime, deltaTime,
                    started, ticks, resizes, tickStart, objects >>

\* cloud.update(deltaTime, this.windSpeed, this.canvas.width, this.canvas.height)
CloudStep ==
    /\ pc = "update"
    /\ Schedule[idx + 1][1] = "cloud"
    /\ LET k == Schedule[idx + 1][2]
       IN  /\ clouds' = [clouds EXCEPT ![k] = CloudUpdate(clouds[k], deltaTime, windSpeed, canvas.width)]
           /\ last' = Op("cloud", k, deltaTime, clouds[k])
    /\ UNCHANGED << birds, random >>
    /\ Advance

\* bird.applyFlocking(this.birds)
FlockStep ==
    /\ pc = "update"
    /\ Schedule[idx + 1][1] = "flock"
    /\ LET k == Schedule[idx + 1][2]
       IN  /\ birds' = applyFlocking(birds, k)
           /\ last' = Op("flock", k, deltaTime, birds[k])
    /\ UNCHANGED << clouds, random >>
    /\ Advance

\* bird.update(deltaTime, this.canvas.width, this.canvas.height, this.mountain)
BirdStep ==
    /\ pc = "update"
    /\ Schedule[idx + 1][1] = "bird"
    /\ LET k == Schedule[idx + 1][2]
           draws == IF TimerExpires(birds[k], deltaTime, mountain) THEN 2 ELSE 0
       IN  /\ birds' = [birds EXCEPT ![k] =
                          BirdUpdate(birds[k], deltaTime, mountain,
                                     Rand(random.stream, random.next),
                                     Rand(random.stream, random.next + 1))]
           /\ random' = [random EXCEPT !.next = random.next + draws]
           /\ last' = [Op("update", k, deltaTime, birds[k]) EXCEPT
                          !.rTurn = Rand(random.stream, random.next),
                          !.rTimer = Rand(random.stream, random.next + 1)]
    /\ UNCHANGED clouds
    /\ Advance

\* the window's resize event: Scene.resize, between two frames
Resize ==
    /\ pc = "idle"
    /\ resizes < MaxResizes
    /\ \E size \in CanvasSizes, stream \in Streams : Resized(size, stream)
    /\ resizes' = resizes + 1
    /\ last' = Op("resize", 0, 0, << >>)
    /\ UNCHANGED << lastTime, currentTime, pc, idx, deltaTime, started, ticks, tickStart, calls >>

Next == SceneInit \/ Animate \/ CloudStep \/ FlockStep \/ BirdStep \/ Resize

Spec == Init /\ [][Next]_vars

--------------------------------------------------------------------------
(* Bird and flock taken alone: any sequence of update and applyFlocking calls, *)
(* with any deltaTime, on a small flock and a mountain of any shape            *)

NoMountain == [present |-> FALSE, vertices |-> << >>]

Triangle == << Point(300, 300), Point(700, 300), Point(500, 700) >>

\* a polygon that reaches the left edge of the scene
Slope == << Point(0, 300), Point(300, 300), Point(0, 900) >>

HarnessMountains ==
    { NoMountain,
      [present |-> TRUE, vertices |-> << >>],
      [present |-> TRUE, vertices |-> << Point(300, 300), Point(700, 500) >>],
      [present |-> TRUE, vertices |-> Triangle],
      [present |-> TRUE, vertices |-> Slope] }

\* a bird in flight: heading and speed give its velocity
BirdAt(x, y, heading, target, speed, baseSpeed, timer) ==
    [position |-> Point(x, y),
     velocity |-> VelocityOf(heading, speed),
     targetDirection |-> target,
     baseSpeed |-> baseSpeed,
     currentSpeed |-> speed,
     minSpeed |-> BIRD_MIN_SPEED,
     maxSpeed |-> BIRD_MAX_SPEED,
     directionChangeTimer |-> timer]

FirstBirds ==
    { BirdAt(500, 400, 90, 90, 4500, BIRD_BASE_SPEED, 15000),
      BirdAt(500, 400, -90, 0, 4500, BIRD_BASE_SPEED, 15000),
      BirdAt(500, 400, -45, 300, 6500, 6500, 15000),
      BirdAt(500, 850, 0, 342, 4500, BIRD_BASE_SPEED, 500),
      BirdAt(20, 500, 180, 180, 3500, BIRD_BASE_SPEED, 500),
      BirdAt(500, 850, 135, 135, 7000, BIRD_BASE_SPEED, 15000) }

\* where the second bird is, relative to the first
Offsets ==
    { Point(30, 0), Point(18, 24), Point(29, 0), Point(1, 0), Point(15, 0),
      Point(100, 0), Point(0, 0), Point(400, 0), Point(20, 0) }

DeltaTimes == { 0, 100, 1000 }

RandomValues == { 0, 999 }

\* the birds of the small flock that update and applyFlocking are called on; the
\* others stay as they are, as neighbours (no call reads their targetDirection)
Subjects == { 1 }

HarnessFlock(b, offset) ==
    << b,
       BirdAt(b.position.x + offset.x, b.position.y + offset.y, 180, 180, 4500,
              BIRD_BASE_SPEED, 15000),
       IF offset = Point(15, 0)
       THEN BirdAt(b.position.x, b.position.y + 20, 90, 90, 4500, BIRD_BASE_SPEED, 15000)
       ELSE IF offset = Point(20, 0)
       THEN BirdAt(b.position.x, b.position.y, 90, 90, 4500, BIRD_BASE_SPEED, 15000)
       ELSE BirdAt(900, 100, 90, 90, 4500, BIRD_BASE_SPEED, 15000) >>

\* what the harness specifications leave alone
SceneIdle ==
    /\ lastTime = 0
    /\ currentTime = 0
    /\ random = [stream |-> << 0 >>, next |-> 1]
    /\ pc = "idle"
    /\ idx = 0
    /\ deltaTime = 0
    /\ started = FALSE
    /\ ticks = 0
    /\ resizes = 0
    /\ calls = << >>
    /\ objects = Recreated(NoObjects, Len(clouds), Len(birds))
    /\ last = NoOp

InitBird ==
    /\ canvas = [width |-> 1000, height |-> 800]
    /\ windSpeed = DEFAULT_WIND_SPEED
    /\ mountain \in HarnessMountains
    /\ clouds = << >>
    /\ \E b \in FirstBirds, offset \in Offsets : birds = HarnessFlock(b, offset)
    /\ tickStart = birds
    /\ SceneIdle

HarnessFrame ==
    /\ ticks < MaxOps
    /\ ticks' = ticks + 1
    /\ UNCHANGED << canvas, windSpeed, mountain, lastTime, currentTime, random,
                    pc, idx, deltaTime, started, resizes, tickStart, calls, objects >>

\* birds[i].update(dt, w, h, mountain), or birds[i].update(dt, w, h) when there is
\* no mountain
CallUpdate ==
    /\ \E i \in Subjects, dt \in DeltaTimes :
         \E rTurn \in (IF TimerExpires(birds[i], dt, mountain) THEN RandomValues ELSE { 0 }) :
           \E rTimer \in (IF TimerExpires(birds[i], dt, mountain) THEN RandomValues ELSE { 0 }) :
              /\ birds' = [birds EXCEPT ![i] = BirdUpdate(birds[i], dt, mountain, rTurn, rTimer)]
              /\ last' = [Op("update", i, dt, birds[i]) EXCEPT !.rTurn = rTurn, !.rTimer = rTimer]
    /\ UNCHANGED clouds
    /\ HarnessFrame

\* birds[i].applyFlocking(birds)
CallApplyFlocking ==
    /\ \E i \in Subjects :
          /\ birds' = applyFlocking(birds, i)
          /\ last' = Op("flock", i, 0, birds)
    /\ UNCHANGED clouds
    /\ HarnessFrame

NextBird == CallUpdate \/ CallApplyFlocking

SpecBird == InitBird /\ [][NextBird]_vars

\* applyFlocking on every bird of flock, in the order the sequence order gives
RECURSIVE FlockPass(_, _)
FlockPass(flock, order) ==
    IF order = << >> THEN flock
    ELSE FlockPass(applyFlocking(flock, Head(order)), Tail(order))

\* the flocking loop of Scene.update: for (const bird of this.birds)
FlockOrder(flock) == [k \in 1 .. Len(flock) |-> k]

\* the whole flocking pass of one tick on the small flock
CallFlockPass ==
    /\ birds' = FlockPass(birds, FlockOrder(birds))
    /\ last' = Op("pass", 0, 0, birds)
    /\ UNCHANGED clouds
    /\ HarnessFrame

NextFlock == CallFlockPass \/ CallUpdate

SpecFlock == InitBird /\ [][NextFlock]_vars

--------------------------------------------------------------------------
(* Cloud taken alone: any sequence of update calls on one cloud *)

CloudStarts == { 1205000, 1200001, 1200000, 1199000, 0, -500000 }

CloudWidths == { 300000, 1000000 }

CloudDeltaTimes == { 0, 100, 1000, 100000 }

InitCloud ==
    /\ canvas \in { [width |-> 1000, height |-> 800], [width |-> 1199, height |-> 800] }
    /\ windSpeed \in { 0, DEFAULT_WIND_SPEED }
    /\ mountain = NoMountain
    /\ \E x \in CloudStarts, w \in CloudWidths, vx \in { 0, 1 } :
          clouds = << NewCloud([x |-> x, y |-> 100000], [x |-> vx, y |-> 0], w, 200000,
                               [x |-> 100, y |-> 100, z |-> 50]) >>
    /\ birds = << >>
    /\ tickStart = birds
    /\ SceneIdle

\* clouds[1].update(dt, windSpeed, canvas.width)
CallCloudUpdate ==
    /\ \E dt \in CloudDeltaTimes :
          /\ clouds' = [clouds EXCEPT ![1] = CloudUpdate(clouds[1], dt, windSpeed, canvas.width)]
          /\ last' = Op("cloud", 1, dt, clouds[1])
    /\ UNCHANGED birds
    /\ HarnessFrame

NextCloud == CallCloudUpdate

SpecCloud == InitCloud /\ [][NextCloud]_vars

(* The cloud in the frame loop: update is called in every frame, for ever, with *)
(* a deltaTime of at least one second; no resize                               *)

DriftDeltaTimes == { 1000, 100000 }

\* one cloud of the scene after Scene.resize: the static eternal cloud where resize
\* puts it, or a moving cloud, taken anywhere along its way
InitDrift ==
    /\ canvas \in { [width |-> 1000, height |-> 800], [width |-> 1199, height |-> 800] }
    /\ windSpeed = DEFAULT_WIND_SPEED
    /\ mountain = NoMountain
    /\ \/ clouds = << EternalCloud(canvas.width, canvas.height) >>
       \/ \E x \in CloudStarts, w \in CloudWidths :
             clouds = << NewCloud([x |-> x, y |-> 100000], [x |-> 1, y |-> 0], w, 200000,
                                  [x |-> 100, y |-> 100, z |-> 50]) >>
    /\ birds = << >>
    /\ tickStart = birds
    /\ SceneIdle

\* a frame: clouds[1].update(dt, windSpeed, canvas.width)
CloudFrame ==
    /\ \E dt \in DriftDeltaTimes :
          /\ clouds' = [clouds EXCEPT ![1] = CloudUpdate(clouds[1], dt, windSpeed, canvas.width)]
          /\ last' = Op("cloud", 1, dt, clouds[1])
    /\ UNCHANGED << canvas, windSpeed, mountain, birds, lastTime, currentTime, random,
                    pc, idx, deltaTime, started, ticks, resizes, tickStart, calls,
                    objects >>

NextDrift == CloudFrame

\* animate requests the next frame at its end, so frames keep coming
SpecDrift == InitDrift /\ [][NextDrift]_vars /\ WF_vars(CloudFrame)

--------------------------------------------------------------------------
(* Mountain taken alone: isPointInside on any vertex list over a small grid *)

GridPoints == { Point(x, y) : x \in { 0, 2, 4 }, y \in { 0, 2 } }

QueryPoints == { Point(x, y) : x \in { 0, 1, 3 }, y \in { 0, 1, 2 } }

RECURSIVE VertexLists(_)
VertexLists(n) ==
    IF n = 0 THEN { << >> }
    ELSE { Append(vs, p) : vs \in VertexLists(n - 1), p \in GridPoints }

InitPoly ==
    /\ canvas = [width |-> 1000, height |-> 800]
    /\ windSpeed = DEFAULT_WIND_SPEED
    /\ \E n \in 0 .. MaxVertices :
          \E vs \in VertexLists(n) : mountain = [present |-> TRUE, vertices |-> vs]
    /\ clouds = << >>
    /\ birds = << >>
    /\ tickStart = birds
    /\ SceneIdle

\* mountain.isPointInside(point)
CallIsPointInside ==
    /\ \E point \in QueryPoints :
          last' = [Op("isPointInside", 0, 0, point) EXCEPT
                     !.result = isPointInside(mountain.vertices, point)]
    /\ UNCHANGED << birds, clouds >>
    /\ HarnessFrame

NextPoly == CallIsPointInside

SpecPoly == InitPoly /\ [][NextPoly]_vars

--------------------------------------------------------------------------
(* The alignment weight taken alone: the weight Bird.alignment gives the second *)
(* of two birds, for every distance up to alignmentDistance and beyond          *)

WeightOffsets ==
    { Point(d, 0) : d \in 0 .. BIRD_ALIGNMENT_DISTANCE + 5 }
      \cup { Point(18, 24), Point(36, 48), Point(0, 30), Point(30, 30) }

InitWeight ==
    /\ canvas = [width |-> 1000, height |-> 800]
    /\ windSpeed = DEFAULT_WIND_SPEED
    /\ mountain = NoMountain
    /\ clouds = << >>
    /\ \E offset \in WeightOffsets :
          birds = << BirdAt(500, 400, 90, 90, 4500, BIRD_BASE_SPEED, 15000),
                     BirdAt(500 + offset.x, 400 + offset.y, 180, 180, 4500,
                            BIRD_BASE_SPEED, 15000) >>
    /\ tickStart = birds
    /\ SceneIdle

\* the weight computed in the loop of birds[1].alignment(birds) for birds[2]
CallAlignmentWeight ==
    /\ last' = [Op("alignmentWeight", 1, 0, birds) EXCEPT
                  !.result = AlignmentWeight(DistSq(birds[1].position, birds[2].position))]
    /\ UNCHANGED << birds, clouds >>
    /\ HarnessFrame

NextWeight == CallAlignmentWeight

SpecWeight == InitWeight /\ [][NextWeight]_vars

--------------------------------------------------------------------------
(* One bird taken alone: any sequence of update calls on a bird at the middle, *)
(* at an edge, in a corner or on the margin line, with any heading and target  *)

SoloPositions ==
    { Point(500, 400),
      Point(20, 500), Point(980, 500), Point(500, 20), Point(500, 980),
      Point(20, 20), Point(980, 20), Point(20, 980), Point(980, 980),
      Point(50, 500), Point(950, 500), Point(500, 50), Point(500, 950) }

\* heading and targetDirection, in degrees
SoloHeadings == { << -45, 300 >>, << -90, 0 >>, << 170, -170 >>, << 90, 90 >>, << 0, 180 >> }

\* directionChangeTimer, in ms
SoloTimers == { 15000, 100 }

InitSolo ==
    /\ canvas = [width |-> 1000, height |-> 800]
    /\ windSpeed = DEFAULT_WIND_SPEED
    /\ mountain \in { NoMountain, [present |-> TRUE, vertices |-> Triangle] }
    /\ clouds = << >>
    /\ \E p \in SoloPositions, ht \in SoloHeadings, timer \in SoloTimers :
          birds = << BirdAt(p.x, p.y, ht[1], ht[2], 4500, BIRD_BASE_SPEED, timer) >>
    /\ tickStart = birds
    /\ SceneIdle

NextSolo == CallUpdate

SpecSolo == InitSolo /\ [][NextSolo]_vars

--------------------------------------------------------------------------
(* Cloud.draw taken alone: the iterations of its loops at grid points spread *)
(* over the box of one cloud, for noise values over [-1, 1]                  *)

\* how many steps of CLOUD_SAMPLE_STEP the grid point is from the corner of the
\* box, along x and along y
SampleColumns == { 0, 12500, 14000, 15000, 16000, 18125, 20000, 21250, 23000, 24999 }

SampleRows == { 0, 6000, 8333, 16666 }

\* values of noise3D, in thousandths
NoiseSamples == { -1000, -980, -600, 0, 800, 1000 }

InitDraw ==
    /\ canvas = [width |-> 1000, height |-> 800]
    /\ windSpeed = DEFAULT_WIND_SPEED
    /\ mountain = NoMountain
    /\ clouds = << NewCloud([x |-> 100000, y |-> 100000], [x |-> 1, y |-> 0],
                            300000, 200000, [x |-> 100, y |-> 100, z |-> 50]) >>
    /\ birds = << >>
    /\ tickStart = birds
    /\ SceneIdle

\* the body of the loops of clouds[1].draw(ctx, time) at one grid point; it changes
\* nothing of the scene
CallDrawSample ==
    /\ \E i \in SampleColumns, j \in SampleRows, noiseValue \in NoiseSamples :
          /\ i * CLOUD_SAMPLE_STEP < clouds[1].width
          /\ j * CLOUD_SAMPLE_STEP < clouds[1].height
          /\ last' = [Op("draw", 1, 0,
                         [x |-> i * CLOUD_SAMPLE_STEP, y |-> j * CLOUD_SAMPLE_STEP,
                          noise |-> noiseValue]) EXCEPT
                        !.result = DrawSample(clouds[1], i * CLOUD_SAMPLE_STEP,
                                              j * CLOUD_SAMPLE_STEP, noiseValue)]
    /\ UNCHANGED << canvas, windSpeed, mountain, clouds, birds, lastTime, currentTime,
                    random, pc, idx, deltaTime, started, ticks, resizes, tickStart,
                    calls, objects >>

NextDraw == CallDrawSample

SpecDraw == InitDraw /\ [][NextDraw]_vars

--------------------------------------------------------------------------
(* Properties *)

\* the bird the last update was called on, after the call
Updated == birds[last.i]

\* C1: after any call of Bird.update, minSpeed <= currentSpeed <= maxSpeed
\* (for a bird with minSpeed <= maxSpeed)
C1_SpeedWithinBounds ==
    (last.op = "update" /\ Updated.minSpeed <= Updated.maxSpeed)
        => /\ Updated.minSpeed <= Updated.currentSpeed
           /\ Updated.currentSpeed <= Updated.maxSpeed

\* an update inside the obstacle whose speed boost alone exceeds maxSpeed
C1_Witness ==
    /\ last.op = "update"
    /\ InsideMountain(last.before, mountain)
    /\ BoostSpeed(last.before) > last.before.maxSpeed
    /\ last.dt > 0
    /\ Updated.currentSpeed = Updated.maxSpeed

\* C2: a cloud beyond canvasWidth + 200 when update is called with velocity.x = 1,
\* windSpeed > 0 and deltaTime >= 0 is at exactly -width - 200 after the call
C2_WrapsToLeft ==
    ( /\ last.op = "cloud"
      /\ last.before.position.x > (canvas.width + 200) * PxScale
      /\ last.before.velocity.x = 1
      /\ windSpeed > 0
      /\ last.dt >= 0 )
        => clouds[1].position.x = -last.before.width - 200 * PxScale

\* the scenario of the specification: width 300, canvasWidth 1000, x 1205 gives -500
C2_Witness ==
    /\ last.op = "cloud"
    /\ canvas.width = 1000
    /\ windSpeed > 0
    /\ last.before.velocity.x = 1
    /\ last.before.width = 300 * PxScale
    /\ last.before.position.x = 1205 * PxScale
    /\ clouds[1].position.x = -500 * PxScale

\* the calls of the running tick before the q-th, of one kind
Before(q, kind) == { calls[p][2] : p \in { r \in 1 .. q - 1 : calls[r][1] = kind } }

\* C3: within a tick every cloud is updated, then applyFlocking is called on every
\* bird, and only then is update called on any bird
C3_TickOrder ==
    \A q \in 1 .. Len(calls) :
        /\ calls[q][1] = "cloud" => Before(q, "flock") = {} /\ Before(q, "bird") = {}
        /\ calls[q][1] = "flock" => /\ Before(q, "cloud") = 1 .. Len(clouds)
                                    /\ Before(q, "bird") = {}
        /\ calls[q][1] = "bird" => /\ Before(q, "cloud") = 1 .. Len(clouds)
                                   /\ Before(q, "flock") = 1 .. Len(birds)

\* a tick with deltaTime > 0 that has run to its end
C3_Witness ==
    /\ pc = "idle"
    /\ deltaTime > 0
    /\ Len(calls) = Len(clouds) + 2 * Len(birds)
    /\ calls[Len(calls)] = << "bird", Len(birds) >>

\* the orders in which applyFlocking can be called once on each of n birds
Orders(n) == { o \in [1 .. n -> 1 .. n] : \A a, b \in 1 .. n : a # b => o[a] # o[b] }

\* C4: the flocking pass is order-independent: calling applyFlocking on the birds in
\* any permutation of the flock order gives every bird the same state, and the
\* targetDirection of each bird is the one computed from the flock at the start
C4_PassOrderIndependent ==
    last.op = "pass" =>
        /\ \A order \in Orders(Len(last.before)) : FlockPass(last.before, order) = birds
        /\ \A i \in 1 .. Len(birds) :
              birds[i].targetDirection = FlockedTarget(last.before, i)

\* a pass in which two birds, each within alignment range of the other, both turn
C4_Witness ==
    /\ last.op = "pass"
    /\ \E i, j \in 1 .. Len(birds) :
          /\ i # j
          /\ j \in getNeighbors(last.before, i, BIRD_ALIGNMENT_DISTANCE)
          /\ birds[i].targetDirection # last.before[i].targetDirection
          /\ birds[j].targetDirection # last.before[j].targetDirection

\* C5 as stated: after one update of a bird inside the obstacle, for any prior
\* heading and any deltaTime, velocity.y < 0 and currentSpeed >= baseSpeed
C5_UpAndBoostedAfterOneUpdate ==
    (last.op = "update" /\ InsideMountain(last.before, mountain))
        => /\ Updated.velocity.y < 0
           /\ Updated.currentSpeed >= Updated.baseSpeed

\* C5, amended: after one update of a bird inside the obstacle its targetDirection
\* is straight up (-pi/2); velocity.y < 0 when the bird was already moving up;
\* currentSpeed >= baseSpeed when gravityEffect * deltaTime <= 0.2 * baseSpeed and
\* baseSpeed <= maxSpeed
C5_ObstacleAvoidance ==
    (last.op = "update" /\ InsideMountain(last.before, mountain))
        => /\ Updated.targetDirection = -(PI \div 2)
           /\ last.before.velocity.y < 0 => Updated.velocity.y < 0
           /\ ( /\ BIRD_GRAVITY_EFFECT * last.dt <= 200 * last.before.baseSpeed
                /\ last.before.baseSpeed <= last.before.maxSpeed )
                 => Updated.currentSpeed >= Updated.baseSpeed

\* an update inside the obstacle of a bird flying straight up at baseSpeed, with a
\* deltaTime that lets gravity slow it by less than the boost
C5_Witness ==
    /\ last.op = "update"
    /\ InsideMountain(last.before, mountain)
    /\ last.dt > 0
    /\ BIRD_GRAVITY_EFFECT * last.dt <= 200 * last.before.baseSpeed
    /\ last.before.velocity.y < 0
    /\ last.before.velocity.x = 0
    /\ last.before.currentSpeed = last.before.baseSpeed
    /\ Updated.currentSpeed > Updated.baseSpeed

\* the largest change one applyFlocking call makes: blendFactor * pi
MaxBlendStep == RDiv(PI * BIRD_FLOCKING_BLEND_FACTOR, 1000)

\* C6 as stated: in every state targetDirection lies in [-2 pi, 2 pi]
C6_TargetDirectionWithinTwoPi ==
    \A i \in 1 .. Len(birds) :
        /\ -(2 * PI) <= birds[i].targetDirection
        /\ birds[i].targetDirection <= 2 * PI

\* C6, amended: targetDirection is in [0, 2 pi) after construction; one
\* applyFlocking call moves it by at most blendFactor * pi; an update leaves it
\* alone or sets it within [-pi - range / 2, pi + range / 2]; so after n ticks it
\* lies within 2 pi + n * blendFactor * pi of 0
C6_TargetDirectionDrift ==
    /\ last.op \in { "none", "resize" } =>
          \A i \in 1 .. Len(birds) :
              0 <= birds[i].targetDirection /\ birds[i].targetDirection < 2 * PI
    /\ \A i \in 1 .. Len(birds) :
          Abs(birds[i].targetDirection) <= 2 * PI + ticks * MaxBlendStep
    /\ last.op = "flock" =>
          Abs(Updated.targetDirection - last.before.targetDirection) <= MaxBlendStep
    /\ last.op = "update" =>
          \/ Updated.targetDirection = last.before.targetDirection
          \/ Abs(Updated.targetDirection) <= PI + BIRD_RANDOM_TURN_RANGE \div 2

\* a bird whose targetDirection applyFlocking has taken beyond 2 pi
C6_Witness ==
    /\ last.op = "flock"
    /\ Abs(last.before.targetDirection) <= 2 * PI
    /\ Abs(Updated.targetDirection) > 2 * PI

\* the vertex list listed from k vertices later
Rotate(vertices, k) ==
    [i \in 1 .. Len(vertices) |-> vertices[((i - 1 + k) % Len(vertices)) + 1]]

\* C7: isPointInside gives the same result for the query point on every cyclic
\* rotation of the vertex list
C7_RotationInvariant ==
    last.op = "isPointInside" =>
        \A k \in 0 .. Len(mountain.vertices) - 1 :
            isPointInside(Rotate(mountain.vertices, k), last.before) = last.result

\* a point inside a polygon of four distinct vertices
C7_Witness ==
    /\ last.op = "isPointInside"
    /\ last.result = TRUE
    /\ Len(mountain.vertices) = 4
    /\ Cardinality({ mountain.vertices[i] : i \in 1 .. 4 }) = 4
    /\ \E k \in 1 .. 3 : Rotate(mountain.vertices, k) # mountain.vertices

\* points all over the scene
ProbePoints == { Point(x, y) : x \in { 0, 300, 400, 500, 700, 1000 },
                               y \in { 0, 300, 400, 500, 700, 1000 } }

\* C8: with fewer than 3 vertices isPointInside is false for every point, and an
\* update of a bird does what it does without a mountain: no obstacle avoidance
C8_FailOpen ==
    Len(mountain.vertices) < 3 =>
        /\ \A p \in ProbePoints : ~isPointInside(mountain.vertices, p)
        /\ \A i \in 1 .. Len(birds) : ~InsideMountain(birds[i], mountain)
        /\ last.op = "update" =>
              /\ ~InsideMountain(last.before, mountain)
              /\ Updated = BirdUpdate(last.before, last.dt, NoMountain, last.rTurn, last.rTimer)

\* an update, with a mountain of two vertices, of a bird on the segment between them
C8_Witness ==
    /\ last.op = "update"
    /\ last.dt > 0
    /\ mountain.present
    /\ Len(mountain.vertices) = 2
    /\ last.before.position = Point(500, 400)
    /\ Updated.position # last.before.position

\* birds i and j of flock are exactly separationDistance apart, and no other bird is
\* closer than that to either
ExactlyApart(flock, i, j) ==
    /\ i # j
    /\ DistSq(flock[i].position, flock[j].position)
          = BIRD_SEPARATION_DISTANCE * BIRD_SEPARATION_DISTANCE
    /\ \A k \in 1 .. Len(flock) :
          /\ k # i => DistSq(flock[k].position, flock[i].position)
                         >= BIRD_SEPARATION_DISTANCE * BIRD_SEPARATION_DISTANCE
          /\ k # j => DistSq(flock[k].position, flock[j].position)
                         >= BIRD_SEPARATION_DISTANCE * BIRD_SEPARATION_DISTANCE

\* C9: for two birds exactly separationDistance apart, no other bird in range, the
\* separation vector of each is exactly (0, 0)
C9_BoundaryContributesNothing ==
    last.op = "flock" =>
        \A i, j \in 1 .. Len(last.before) :
            ExactlyApart(last.before, i, j)
                => /\ separation(last.before, i) = Zero2
                   /\ separation(last.before, j) = Zero2

\* applyFlocking on a bird whose neighbour is exactly separationDistance away, off
\* the axes, the two flying toward each other
C9_Witness ==
    /\ last.op = "flock"
    /\ last.i = 1
    /\ ExactlyApart(last.before, 1, 2)
    /\ last.before[2].position.y # last.before[1].position.y
    /\ last.before[1].velocity.x > 0
    /\ last.before[2].velocity.x < 0
    /\ separation(last.before, 1) = Zero2

\* bird j is the only bird closer than separationDistance to bird i, and not on it
SingleNeighbour(flock, i, j) ==
    /\ getNeighbors(flock, i, BIRD_SEPARATION_DISTANCE) = { j }
    /\ DistSq(flock[i].position, flock[j].position) > 0

\* the squared magnitude of the separation vector of bird i
SeparationMagSq(flock, i) ==
    separation(flock, i).x * separation(flock, i).x
      + separation(flock, i).y * separation(flock, i).y

\* flock with bird j one position unit farther from bird i along the x axis
OneFarther(flock, i, j) ==
    [flock EXCEPT ![j].position.x =
        IF flock[j].position.x >= flock[i].position.x THEN @ + 1 ELSE @ - 1]

\* C10: with a single neighbour at distance d, 0 < d < separationDistance, the
\* magnitude of separation decreases as d grows, and is small (here: at most a
\* tenth of separationWeight) within a thirtieth of separationDistance of it
C10_SeparationFallsOff ==
    last.op = "flock" =>
        \A i, j \in 1 .. Len(last.before) :
            SingleNeighbour(last.before, i, j) =>
                /\ SingleNeighbour(OneFarther(last.before, i, j), i, j)
                      => SeparationMagSq(OneFarther(last.before, i, j), i)
                            < SeparationMagSq(last.before, i)
                /\ DistSq(last.before[i].position, last.before[j].position)
                      >= (BIRD_SEPARATION_DISTANCE - 1) * (BIRD_SEPARATION_DISTANCE - 1)
                      => SeparationMagSq(last.before, i) * 100
                            <= BIRD_SEPARATION_WEIGHT * BIRD_SEPARATION_WEIGHT

\* the squared distance between the two birds the weight was computed for
WeightDistSq == DistSq(last.before[1].position, last.before[2].position)

\* C11: for every distance d in [0, alignmentDistance] the alignment weight is at
\* most the weight at alignmentDistance / 2, equal to it at alignmentDistance / 2,
\* and strictly smaller at d = 0 and at d = alignmentDistance
C11_AlignmentWeightPeak ==
    (last.op = "alignmentWeight"
       /\ WeightDistSq <= BIRD_ALIGNMENT_DISTANCE * BIRD_ALIGNMENT_DISTANCE)
        => LET peak == AlignmentWeight((BIRD_ALIGNMENT_DISTANCE \div 2)
                                         * (BIRD_ALIGNMENT_DISTANCE \div 2))
           IN  /\ last.result <= peak
               /\ 4 * WeightDistSq = BIRD_ALIGNMENT_DISTANCE * BIRD_ALIGNMENT_DISTANCE
                     => last.result = peak
               /\ WeightDistSq = 0 => last.result < peak
               /\ WeightDistSq = BIRD_ALIGNMENT_DISTANCE * BIRD_ALIGNMENT_DISTANCE
                     => last.result < peak

\* the weight at exactly alignmentDistance, off the axes
C11_Witness ==
    /\ last.op = "alignmentWeight"
    /\ last.before[2].position = Point(536, 448)
    /\ WeightDistSq = BIRD_ALIGNMENT_DISTANCE * BIRD_ALIGNMENT_DISTANCE
    /\ last.result = 0

\* C12: a bird with no other bird within a rule's distance gets (0, 0) from that
\* rule, and applyFlocking leaves the targetDirection of a bird with no bird
\* within cohesionDistance (the largest of the three) unchanged
C12_NoNeighboursZero ==
    last.op = "flock" =>
        /\ \A i \in 1 .. Len(last.before) :
              /\ getNeighbors(last.before, i, BIRD_SEPARATION_DISTANCE) = {}
                    => separation(last.before, i) = Zero2
              /\ getNeighbors(last.before, i, BIRD_ALIGNMENT_DISTANCE) = {}
                    => alignment(last.before, i) = Zero2
              /\ getNeighbors(last.before, i, BIRD_COHESION_DISTANCE) = {}
                    => cohesion(last.before, i) = Zero2
        /\ getNeighbors(last.before, last.i, BIRD_COHESION_DISTANCE) = {}
              => Updated.targetDirection = last.before[last.i].targetDirection

\* applyFlocking on an isolated bird whose targetDirection is not 0
C12_Witness ==
    /\ last.op = "flock"
    /\ getNeighbors(last.before, last.i, BIRD_COHESION_DISTANCE) = {}
    /\ last.before[last.i].targetDirection # 0
    /\ Updated = last.before[last.i]

\* the birds of flock at the very position of bird i
Coincident(flock, i) ==
    { j \in 1 .. Len(flock) : j # i /\ flock[j].position = flock[i].position }

\* flock with the birds of J moved a screen width away
MovedAway(flock, J) ==
    [k \in 1 .. Len(flock) |->
        IF k \in J THEN [flock[k] EXCEPT !.position.x = @ + PosScale] ELSE flock[k]]

\* C13: with another bird at the very same position, separation divides by no
\* zero; the coincident bird contributes nothing (the result is the one without
\* it); and it is (0, 0) when no other bird is within separationDistance
C13_CoincidentContributesNothing ==
    last.op = "flock" =>
        \A i \in 1 .. Len(last.before) :
            Coincident(last.before, i) # {} =>
                /\ 0 \notin SeparationDivisors(last.before, i, BIRD_SEPARATION_DISTANCE)
                /\ separation(last.before, i)
                      = separation(MovedAway(last.before, Coincident(last.before, i)), i)
                /\ getNeighbors(last.before, i, BIRD_SEPARATION_DISTANCE)
                        \subseteq Coincident(last.before, i)
                      => separation(last.before, i) = Zero2

\* applyFlocking on a bird with one bird at its position and another one closer
\* than separationDistance, which alone decides the separation vector
C13_WitnessWithThird ==
    /\ last.op = "flock"
    /\ last.i = 1
    /\ Coincident(last.before, 1) = { 3 }
    /\ getNeighbors(last.before, 1, BIRD_SEPARATION_DISTANCE) = { 2, 3 }
    /\ separation(last.before, 1) # Zero2

\* applyFlocking on a bird whose only neighbour is at its position
C13_Witness ==
    /\ last.op = "flock"
    /\ last.i = 1
    /\ Coincident(last.before, 1) = { 2 }
    /\ getNeighbors(last.before, 1, BIRD_SEPARATION_DISTANCE) = { 2 }
    /\ separation(last.before, 1) = Zero2

\* C14: an update of a bird that is avoiding (near an edge or inside the obstacle)
\* leaves directionChangeTimer unchanged and sets targetDirection to the avoidance
\* direction, whatever Math.random() would give: no random perturbation
C14_AvoidingKeepsTimer ==
    (last.op = "update" /\ AvoidanceDirection(last.before, mountain).avoid)
        => /\ Updated.directionChangeTimer = last.before.directionChangeTimer
           /\ Updated.targetDirection = AvoidanceDirection(last.before, mountain).direction
           /\ \A rTurn, rTimer \in RandomValues :
                 BirdUpdate(last.before, last.dt, mountain, rTurn, rTimer) = Updated

\* an update of a bird near the left edge, with a deltaTime that exceeds what is
\* left on its timer
C14_Witness ==
    /\ last.op = "update"
    /\ EdgeAvoidance(last.before.position).avoid
    /\ last.dt >= last.before.directionChangeTimer
    /\ Updated.directionChangeTimer = last.before.directionChangeTimer
    /\ Updated.directionChangeTimer > 0

\* C15: a bird within edgeMargin of a boundary and inside the obstacle gets
\* targetDirection -pi/2 from update, whatever the edge rule selected
C15_ObstacleWinsOverEdge ==
    ( /\ last.op = "update"
      /\ EdgeAvoidance(last.before.position).avoid
      /\ InsideMountain(last.before, mountain) )
        => Updated.targetDirection = -(PI \div 2)

\* an update of a bird near the left edge, where the edge rule selects 0 (right),
\* and inside the obstacle
C15_Witness ==
    /\ last.op = "update"
    /\ InsideMountain(last.before, mountain)
    /\ EdgeAvoidance(last.before.position) = Avoid(0)
    /\ Updated.targetDirection = -(PI \div 2)

\* the last update has wrapped the cloud
Wrapped ==
    /\ last.op = "cloud"
    /\ last.before.position.x + last.before.velocity.x * windSpeed * last.dt
          > (canvas.width + WRAP_BUFFER) * PxScale

C17_WrapRandomizes ==
    Wrapped => \/ clouds[last.i].width # last.before.width
               \/ clouds[last.i].height # last.before.height

\* C18: the first tick has deltaTime 0; no tick measures deltaTime from the
\* initial lastTime = 0; the deltaTime of every tick is 0 or the time since the
\* previous frame's timestamp, and >= 0 when the timestamps do not decrease
C18_FrameDeltaTime ==
    [][ticks' # ticks =>
          /\ ticks = 0 => deltaTime' = 0
          /\ lastTime = 0 => deltaTime' = 0
          /\ deltaTime' = 0 \/ deltaTime' = currentTime' - currentTime
          /\ currentTime' >= currentTime => deltaTime' >= 0]_vars

\* the second frame, ten seconds after animate(0), has begun with deltaTime 0
C18_Witness ==
    /\ ticks = 2
    /\ pc = "update"
    /\ idx = 0
    /\ currentTime = 10000
    /\ lastTime = 10000
    /\ deltaTime = 0

\* a later frame has begun with the time since the previous frame
C18_WitnessLater ==
    /\ ticks = 3
    /\ pc = "update"
    /\ idx = 0
    /\ deltaTime = 100
    /\ currentTime = 10100

\* the identities of the objects in the two collections
Identities(o) ==
    { o.clouds[k] : k \in 1 .. Len(o.clouds) } \cup { o.birds[k] : k \in 1 .. Len(o.birds) }

\* C19: the scene always holds 6 clouds (1 static, then 5 moving) and 15 birds; a
\* resize happens between ticks and leaves none of the objects that were there
\* before it; any other step leaves the membership and order of both collections
C19_ResizeRecreates ==
    /\ [](/\ Len(clouds) = 6
          /\ clouds[1].velocity.x = 0
          /\ \A k \in 2 .. 6 : clouds[k].velocity.x = 1
          /\ Len(birds) = 15
          /\ Len(objects.clouds) = Len(clouds)
          /\ Len(objects.birds) = Len(birds)
          /\ Cardinality(Identities(objects)) = Len(clouds) + Len(birds))
    /\ [][/\ resizes' # resizes =>
                /\ pc = "idle" /\ pc' = "idle"
                /\ Identities(objects') \cap Identities(objects) = {}
          /\ resizes' = resizes => objects' = objects]_vars

\* a resize after the scene has run two ticks, followed by a whole tick
C19_Witness ==
    /\ resizes = 1
    /\ ticks = 3
    /\ pc = "idle"
    /\ last.op = "update"
    /\ Len(clouds) = 6
    /\ Len(birds) = 15
    /\ \A id \in Identities(objects) : id > 21

\* the force applyFlocking summed in the last call, and the heading it asks for
LastForce == TotalForce(last.before, last.i)

LastDesired == Atan2(LastForce.y, LastForce.x)

\* C20: when the summed force is > 0.01, applyFlocking moves targetDirection by
\* blendFactor * wrap(desired - old): toward the desired heading along the shorter
\* arc, by at most blendFactor * pi, and not onto the desired heading unless it
\* was there; when the force is <= 0.01 it leaves targetDirection unchanged
C20_FlockingOnlyBiases ==
    last.op = "flock" =>
        LET old == last.before[last.i].targetDirection
            new == Updated.targetDirection
            arc == WrapAngle(LastDesired - old)
        IN  IF LastForce.x * LastForce.x + LastForce.y * LastForce.y > 10 * 10
            THEN /\ -PI <= arc /\ arc <= PI
                 /\ new = old + RDiv(arc * BIRD_FLOCKING_BLEND_FACTOR, 1000)
                 /\ Abs(new - old) <= RDiv(PI * BIRD_FLOCKING_BLEND_FACTOR, 1000)
                 /\ Sign(new - old) \in { 0, Sign(arc) }
                 /\ Abs(WrapAngle(LastDesired - new)) <= Abs(arc)
                 /\ arc # 0 => Mod360(LastDesired - new) # 0
            ELSE new = old

\* applyFlocking on a bird whose desired heading is more than a right angle from
\* its targetDirection, which it turns toward, the shorter way
C20_Witness ==
    /\ last.op = "flock"
    /\ LastForce.x * LastForce.x + LastForce.y * LastForce.y > 10 * 10
    /\ Abs(WrapAngle(LastDesired - last.before[last.i].targetDirection)) > PI \div 2
    /\ Abs(LastDesired - last.before[last.i].targetDirection) > PI
    /\ Updated.targetDirection # last.before[last.i].targetDirection

\* C21: a call of applyFlocking on a bird changes that bird's targetDirection and
\* nothing else (no bird's position, velocity, currentSpeed or directionChangeTimer,
\* and no other bird's targetDirection); a call of update on a bird changes no
\* other bird; neither call changes the number of birds
C21_WrittenByOwnStepOnly ==
    [][ /\ last'.op = "flock" =>
             /\ Len(birds') = Len(birds)
             /\ \A j \in 1 .. Len(birds) :
                   IF j = last'.i
                   THEN [birds'[j] EXCEPT !.targetDirection = birds[j].targetDirection]
                          = birds[j]
                   ELSE birds'[j] = birds[j]
        /\ last'.op = "update" =>
             /\ Len(birds') = Len(birds)
             /\ \A j \in 1 .. Len(birds) : j # last'.i => birds'[j] = birds[j] ]_vars

\* applyFlocking has turned the targetDirection of a bird with a neighbour in
\* cohesion range, and an update has then moved that bird
C21_Witness ==
    /\ last.op = "update"
    /\ last.dt > 0
    /\ getNeighbors(tickStart, last.i, BIRD_COHESION_DISTANCE) # {}
    /\ last.before.targetDirection # tickStart[last.i].targetDirection
    /\ last.before.position = tickStart[last.i].position
    /\ Updated.position # last.before.position
    /\ \A j \in 1 .. Len(birds) : j # last.i => birds[j] = tickStart[j]

\* the heading (direction of the velocity) before the last update, the wrapped
\* difference from it to the targetDirection the update steers by, and the wrapped
\* change of heading the update made
LastHeading == Atan2(last.before.velocity.y, last.before.velocity.x)

LastAngleDiff == WrapAngle(Updated.targetDirection - LastHeading)

LastTurn == WrapAngle(Atan2(Updated.velocity.y, Updated.velocity.x) - LastHeading)

C22_WitnessReached ==
    /\ last.op = "update"
    /\ LastAngleDiff # 0
    /\ LastTurn = LastAngleDiff

\* a bird that update finds outside the edge margins and outside the obstacle
Cruising(b) ==
    /\ b.position.x >= BIRD_EDGE_MARGIN /\ b.position.x <= PosScale - BIRD_EDGE_MARGIN
    /\ b.position.y >= BIRD_EDGE_MARGIN /\ b.position.y <= PosScale - BIRD_EDGE_MARGIN
    /\ ~(mountain.present /\ isPointInside(mountain.vertices, b.position))

\* C23: in an update of a cruising bird the timer goes down by deltaTime; while the
\* result is still positive targetDirection is not changed; when it is <= 0,
\* targetDirection becomes the heading of the velocity plus an offset of at most
\* randomTurnRange / 2 either way (so within +/- randomTurnRange, not a full
\* circle) and the timer is reset to a value in [directionChangeMin, directionChangeMax]
C23_DirectionChangeTimer ==
    (last.op = "update" /\ Cruising(last.before)) =>
        LET left == last.before.directionChangeTimer - last.dt
            offset == Updated.targetDirection - LastHeading
        IN  IF left > 0
            THEN /\ Updated.directionChangeTimer = left
                 /\ Updated.targetDirection = last.before.targetDirection
            ELSE /\ 2 * Abs(offset) <= BIRD_RANDOM_TURN_RANGE
                 /\ Abs(offset) <= BIRD_RANDOM_TURN_RANGE
                 /\ BIRD_DIRECTION_CHANGE_MIN <= Updated.directionChangeTimer
                 /\ Updated.directionChangeTimer <= BIRD_DIRECTION_CHANGE_MAX

\* an update of a cruising bird whose timer reaches exactly 0: the target, which was
\* at the other side of the circle, is now within 30 degrees of the heading
C23_Witness ==
    /\ last.op = "update"
    /\ Cruising(last.before)
    /\ last.dt > 0
    /\ last.before.directionChangeTimer = last.dt
    /\ Abs(WrapAngle(last.before.targetDirection - LastHeading)) > PI \div 2
    /\ Updated.targetDirection # LastHeading
    /\ Updated.targetDirection # last.before.targetDirection
    /\ Updated.directionChangeTimer >= BIRD_DIRECTION_CHANGE_MIN

\* an update of a cruising bird that only counts the timer down
C23_WitnessCountdown ==
    /\ last.op = "update"
    /\ Cruising(last.before)
    /\ last.dt > 0
    /\ Updated.directionChangeTimer = last.before.directionChangeTimer - last.dt
    /\ Updated.directionChangeTimer > 0

\* C24: for a bird outside the obstacle, update sets targetDirection to 0 when
\* x < edgeMargin, else to pi when x > 1 - edgeMargin, else to pi/2 when
\* y < edgeMargin, else to -pi/2 when y > 1 - edgeMargin; in a corner the direction
\* chosen leads away from the x-edge and not toward the y-edge; when no condition
\* holds (and the timer does not expire) targetDirection is left as it was
C24_EdgeAvoidance ==
    ( /\ last.op = "update"
      /\ ~(mountain.present /\ isPointInside(mountain.vertices, last.before.position)) ) =>
        LET p == last.before.position
            target == Updated.targetDirection
            left == p.x < BIRD_EDGE_MARGIN
            right == p.x > PosScale - BIRD_EDGE_MARGIN
            top == p.y < BIRD_EDGE_MARGIN
            bottom == p.y > PosScale - BIRD_EDGE_MARGIN
        IN  /\ left => target = 0
            /\ (~left /\ right) => target = PI
            /\ (~left /\ ~right /\ top) => target = PI \div 2
            /\ (~left /\ ~right /\ ~top /\ bottom) => target = -(PI \div 2)
            /\ left => Cos(target) > 0
            /\ right => Cos(target) < 0
            /\ top => Sin(target) >= 0
            /\ bottom => Sin(target) <= 0
            /\ ( /\ ~left /\ ~right /\ ~top /\ ~bottom
                 /\ last.before.directionChangeTimer - last.dt > 0 )
                  => target = last.before.targetDirection

\* an update of a bird in the bottom right corner, which had another target: it is
\* sent left
C24_Witness ==
    /\ last.op = "update"
    /\ ~(mountain.present /\ isPointInside(mountain.vertices, last.before.position))
    /\ last.before.position.x > PosScale - BIRD_EDGE_MARGIN
    /\ last.before.position.y > PosScale - BIRD_EDGE_MARGIN
    /\ last.before.targetDirection # PI
    /\ Updated.targetDirection = PI

\* an update of a bird exactly on the margin line, beside an obstacle it is not
\* in: its target is not overridden
C24_WitnessOnMargin ==
    /\ last.op = "update"
    /\ mountain.present
    /\ last.before.position = Point(BIRD_EDGE_MARGIN, 500)
    /\ last.before.targetDirection # 0
    /\ Updated.targetDirection = last.before.targetDirection

\* the normalized elliptical distance of the last grid point drawn, squared, from
\* the cloud's box: ((x - width / 2) / (width / 2))^2 + ((y - height / 2) / (height / 2))^2
LastDistSq ==
    LET dx == RDiv((2 * last.before.x - clouds[1].width) * 1000, clouds[1].width)
        dy == RDiv((2 * last.before.y - clouds[1].height) * 1000, clouds[1].height)
    IN  dx * dx + dy * dy

\* C25: at every grid point, with noise in [0, 1]: a point at distance d > 1 is not
\* emitted; otherwise exactly the zone of d applies (core d < 0.20, blend
\* 0.20 <= d < 0.45, transition 0.45 <= d < 0.70, washout 0.70 <= d <= 1), the
\* zone's alpha is in [0, 1], the boosted alpha is min(1, 2.5 * alpha), and the
\* point is emitted iff the boosted alpha is > 0.02; so an emitted alpha is in
\* (0.02, 1], and every core point is emitted with alpha 1
C25_OpacityField ==
    last.op = "draw" =>
        LET r == last.result
            dsq == LastDistSq
        IN  /\ r.skipped <=> dsq > 1000 * 1000
            /\ r.skipped => ~r.emitted
            /\ ~r.skipped =>
                  /\ r.zone = "core" <=> dsq < 200 * 200
                  /\ r.zone = "blend" <=> (dsq >= 200 * 200 /\ dsq < 450 * 450)
                  /\ r.zone = "transition" <=> (dsq >= 450 * 450 /\ dsq < 700 * 700)
                  /\ r.zone = "washout" <=> (dsq >= 700 * 700 /\ dsq <= 1000 * 1000)
                  /\ r.zone \in { "core", "blend", "transition", "washout" }
                  /\ 0 <= r.alpha /\ r.alpha <= AlphaScale
                  /\ 2 * r.boosted \in { 2 * AlphaScale, 5 * r.alpha, 5 * r.alpha + 1 }
                  /\ 2 * r.boosted <= 5 * r.alpha + 1
                  /\ r.boosted <= AlphaScale
                  /\ r.emitted <=> r.boosted > 20000
                  /\ r.emitted => (r.boosted > 20000 /\ r.boosted <= AlphaScale)
                  /\ r.zone = "core" => (r.emitted /\ r.boosted = AlphaScale)

\* a washout point that is emitted with an alpha below 1
C25_Witness ==
    /\ last.op = "draw"
    /\ last.result.zone = "washout"
    /\ last.result.emitted
    /\ last.result.boosted < AlphaScale

\* a grid point in a corner of the box, outside the ellipse: skipped
C25_WitnessSkipped ==
    /\ last.op = "draw"
    /\ last.before.x = 0
    /\ last.result.skipped

\* a transition point whose boosted alpha is at most 0.02: dropped
C25_WitnessDropped ==
    /\ last.op = "draw"
    /\ last.result.zone = "transition"
    /\ last.before.noise > -1000
    /\ ~last.result.emitted

\* a core point with the lowest noise: emitted with alpha 1
C25_WitnessCore ==
    /\ last.op = "draw"
    /\ last.result.zone = "core"
    /\ last.before.noise = -1000
    /\ last.result.alpha < AlphaScale
    /\ last.result.boosted = AlphaScale

\* C26: after every call of Cloud.update (velocity.x >= 0, windSpeed >= 0,
\* deltaTime >= 0, width > 0) the cloud's position.x is <= canvasWidth + 200
C26_NeverLeftBeyondThreshold ==
    ( /\ last.op = "cloud"
      /\ last.before.velocity.x >= 0 /\ windSpeed >= 0 /\ last.dt >= 0
      /\ last.before.width > 0 )
        => clouds[last.i].position.x <= (canvas.width + 200) * PxScale

\* an update whose drift carries the cloud from the visible side over the
\* threshold: it is put back at the left
C26_Witness ==
    /\ last.op = "cloud"
    /\ last.dt > 0
    /\ last.before.position.x <= (canvas.width + 200) * PxScale
    /\ last.before.position.x + last.before.velocity.x * windSpeed * last.dt
          > (canvas.width + 200) * PxScale
    /\ clouds[last.i].position.x < 0

\* an update that leaves the cloud exactly at the threshold
C26_WitnessAtThreshold ==
    /\ last.op = "cloud"
    /\ clouds[last.i].position.x = (canvas.width + 200) * PxScale

C27_WitnessStatic ==
    /\ last.op = "cloud"
    /\ last.dt > 0
    /\ clouds[1].velocity.x = 0
    /\ clouds[1] = EternalCloud(canvas.width, canvas.height)

\* C28: in every state of the scene, from construction on and after every update,
\* the directionChangeTimer of every bird is > 0 and <= directionChangeMax
C28_TimerPositive ==
    \A i \in 1 .. Len(birds) :
        /\ birds[i].directionChangeTimer > 0
        /\ birds[i].directionChangeTimer <= BIRD_DIRECTION_CHANGE_MAX

\* an update in which the timer of a cruising bird ran down to exactly 0 and was
\* set anew
C28_Witness ==
    /\ last.op = "update"
    /\ last.dt > 0
    /\ Cruising(last.before)
    /\ last.before.directionChangeTimer = last.dt
    /\ Updated.directionChangeTimer >= BIRD_DIRECTION_CHANGE_MIN

\* an update of an avoiding bird with a deltaTime longer than its timer, which it
\* keeps
C28_WitnessAvoiding ==
    /\ last.op = "update"
    /\ ~Cruising(last.before)
    /\ last.dt >= last.before.directionChangeTimer
    /\ Updated.directionChangeTimer = last.before.directionChangeTimer

\* the bird of the last update had, since the start, only its targetDirection
\* changed: the calls before the update were applyFlocking calls, as in a tick
OnlyFlockedBefore ==
    last.before = [tickStart[last.i] EXCEPT !.targetDirection = last.before.targetDirection]

\* the bird of the last update as applyFlocking would have left it had the other
\* birds been elsewhere (the second bird at offset from it)
FlockedAmong(offset) == applyFlocking(HarnessFlock(tickStart[last.i], offset), 1)[1]

\* C29: when the bird is avoiding (in an edge margin or inside the obstacle), its
\* state after update does not depend on what applyFlocking made of its
\* targetDirection in the tick: a run that differs only in where the other birds
\* are, and so in the flocking force, gives the same position, velocity (heading),
\* currentSpeed and targetDirection after the update
C29_AvoidanceIgnoresFlocking ==
    (last.op = "update" /\ ~Cruising(last.before) /\ OnlyFlockedBefore) =>
        \A offset \in Offsets :
            LET other == BirdUpdate(FlockedAmong(offset), last.dt, mountain,
                                    last.rTurn, last.rTimer)
            IN  /\ other.position = Updated.position
                /\ other.velocity = Updated.velocity
                /\ other.currentSpeed = Updated.currentSpeed
                /\ other.targetDirection = Updated.targetDirection

\* an update of an avoiding bird whose targetDirection applyFlocking had turned,
\* and would have turned elsewhere among other neighbours
C29_Witness ==
    /\ last.op = "update"
    /\ last.dt > 0
    /\ ~Cruising(last.before)
    /\ OnlyFlockedBefore
    /\ last.before.targetDirection # tickStart[last.i].targetDirection
    /\ \E offset \in Offsets :
          /\ FlockedAmong(offset).targetDirection # last.before.targetDirection
          /\ FlockedAmong(offset).targetDirection # tickStart[last.i].targetDirection
    /\ Updated.position # last.before.position

\* the birds within cohesionDistance of the bird applyFlocking was last called on
CohesionNeighbours == getNeighbors(last.before, last.i, BIRD_COHESION_DISTANCE)

\* C30: whenever a bird has at least one other bird within cohesionDistance, the
\* cohesion vector is cohesionWeight times the offset from the bird to a point
\* inside the bounding box of those neighbours' positions, also when a neighbour
\* is at exactly the bird's own position
C30_CohesionTowardNeighbours ==
    (last.op = "flock" /\ CohesionNeighbours # {}) =>
        LET xs == { last.before[j].position.x : j \in CohesionNeighbours }
            ys == { last.before[j].position.y : j \in CohesionNeighbours }
            lowX == CHOOSE x \in xs : \A other \in xs : x <= other
            highX == CHOOSE x \in xs : \A other \in xs : x >= other
            lowY == CHOOSE y \in ys : \A other \in ys : y <= other
            highY == CHOOSE y \in ys : \A other \in ys : y >= other
            own == last.before[last.i].position
            force == cohesion(last.before, last.i)
        IN  /\ \E x \in lowX .. highX :
                  force.x = RDiv((x - own.x) * BIRD_COHESION_WEIGHT, 1000)
            /\ \E y \in lowY .. highY :
                  force.y = RDiv((y - own.y) * BIRD_COHESION_WEIGHT, 1000)

==========================================================================
